---- MODULE Spec2Model ----
(***************************************************************************)
(* ubxlocationdate.py: collect (datetime, lat, lon) samples from the       *)
(* NAV-PVT messages of every .ubz file of a directory and report, per      *)
(* file, the region of its first sample.                                   *)
(*                                                                         *)
(* A decompressed stream is modelled as the sequence of items the          *)
(* UBXReader iterator yields (one per frame) together with the number of   *)
(* items read before the stream raises (gzip / I/O error), if it does.     *)
(* Latitudes and longitudes are in micro-degrees (1e-6 degree), so that    *)
(* every literal of the region chain is an integer.                        *)
(***************************************************************************)
EXTENDS Integers, Sequences, FiniteSets

VARIABLES
    dirExists,   \* src_dir.exists() and src_dir.is_dir()
    dir,         \* directory: file name (1..n) -> entry
    pc,          \* position of main
    paths,       \* sorted(src_dir.glob("*.ubz"))
    cur,         \* index in paths of the path of the for loop of line 85
    pos,         \* items the UBXReader of the current file has yielded
    records,     \* local `records` of collect_info_from_file
    results,     \* dict `results`, in insertion order: <<[name, records]>>
    warnings,    \* names of "Warning: failed to process" lines printed
    reportIdx,   \* index in results of the item of the for loop of line 111
    reports,     \* summary lines printed by main, one per reported file
    errorPrinted \* main printed "Error: ..." (line 107)

vars == <<dirExists, dir, pc, paths, cur, pos, records, results, warnings,
          reportIdx, reports, errorPrinted>>

-----------------------------------------------------------------------------
(* Bounds of the model *)

\* files of a directory (specification Spec)
NFiles == 3
\* frames of a file in a directory of several files (specification Spec)
DirMaxFrames == 1
\* frames of the file of a one-file directory (specification SpecFile)
MaxFrames == 2

-----------------------------------------------------------------------------
(* Frames *)

FieldNames == {"lat", "lon", "year", "month", "day", "hour", "min", "second", "nano"}

\* a NAV-PVT frame with a good checksum, every field present
BaseFix ==
    [identity |-> "NAV-PVT", ckOk |-> TRUE, missing |-> {},
     year |-> 2025, month |-> 9, day |-> 12, hour |-> 0, min |-> 53,
     second |-> 40, nano |-> 299123, lat |-> 1300000, lon |-> 103820000]

\* values of the signed 32-bit nano field
NanoVals == {-2147483647 - 1, -1500, -1, 0, 999, 1000000000, 2147483647}

\* frames of the file of specification SpecFile
FileFrames ==
       {[BaseFix EXCEPT !.nano = n] : n \in NanoVals}
  \cup {BaseFix,
        [BaseFix EXCEPT !.ckOk = FALSE, !.day = 13],
        [BaseFix EXCEPT !.month = 13],
        [BaseFix EXCEPT !.day = 32],
        [BaseFix EXCEPT !.hour = 25],
        [BaseFix EXCEPT !.month = 2, !.day = 29],
        [BaseFix EXCEPT !.year = 2024, !.month = 2, !.day = 29],
        [BaseFix EXCEPT !.missing = {"lat"}],
        [BaseFix EXCEPT !.missing = {"nano"}, !.day = 14],
        [BaseFix EXCEPT !.identity = "NAV-PVAT"],
        [BaseFix EXCEPT !.identity = "none", !.missing = FieldNames]}

\* frames of the files of specification Spec
DirFrames == {BaseFix, [BaseFix EXCEPT !.month = 13]}

\* latitudes and longitudes around every literal of the region chain
LatLits == {59833330, 68905960, 45832030, 47697320, 18243060, 52333330,
            24344780, 45409440, 1289670, 1328080, 19501390, 64856940}
LonLits == {21375960, 30932760, 6075440, 9837230, 75989510, 134289170,
            124157170, 145575000, 103804641, 103840000, -161755830, -68011970}
LatGrid == UNION {{b - 1, b, b + 1} : b \in LatLits} \cup {0, 1300000, 61000000}
LonGrid == UNION {{b - 1, b, b + 1} : b \in LonLits} \cup {0, 103820000, 25000000}

\* frames of the file of specification SpecGeo
GeoFrames == {[BaseFix EXCEPT !.lat = la, !.lon = lo] : la \in LatGrid, lo \in LonGrid}

-----------------------------------------------------------------------------
(* Directories *)

SeqsUpTo(S, n) == UNION {[1..k -> S] : k \in 0..n}

\* failAfter = k <= Len(frames): the stream raises once k items were read
\* (k = 0: at the first read, or at gzip.open); failAfter = Len(frames) + 1:
\* the stream is read to its end.
UbzEntries(F, n) ==
    UNION {{[ubz |-> TRUE, frames |-> fs, failAfter |-> k] : k \in 0..(Len(fs) + 1)}
           : fs \in SeqsUpTo(F, n)}

\* a file of the directory whose name does not end in .ubz
OtherEntry == [ubz |-> FALSE, frames |-> <<>>, failAfter |-> 1]

Dirs(F, n, m) == UNION {[1..k -> UbzEntries(F, n) \cup {OtherEntry}] : k \in 1..m}

Fails(e) == e.failAfter <= Len(e.frames)

-----------------------------------------------------------------------------
(* Helpers *)

RECURSIVE SortedSeq(_)
SortedSeq(S) ==
    IF S = {} THEN <<>>
    ELSE LET m == CHOOSE x \in S : \A y \in S : x <= y
         IN <<m>> \o SortedSeq(S \ {m})

\* src_dir.glob("*.ubz")
Glob == {i \in DOMAIN dir : dir[i].ubz}

IsLeap(y) == (y % 4 = 0) /\ ((y % 100 # 0) \/ (y % 400 = 0))

DaysInMonth(y, m) ==
    IF m = 2 THEN (IF IsLeap(y) THEN 29 ELSE 28)
    ELSE IF m \in {4, 6, 9, 11} THEN 30 ELSE 31

\* datetime(year, month, day, hour, minute, second, microsecond) does not raise
DatetimeAccepts(y, mo, d, h, mi, s, us) ==
    /\ 1 <= y /\ y <= 9999
    /\ 1 <= mo /\ mo <= 12
    /\ 1 <= d /\ d <= DaysInMonth(y, mo)
    /\ 0 <= h /\ h <= 23
    /\ 0 <= mi /\ mi <= 59
    /\ 0 <= s /\ s <= 59
    /\ 0 <= us /\ us <= 999999

\* variant: a reader that validates checksums, UBXReader(stream, validate=True)
ValidateOn == TRUE

\* UBXReader(stream, validate=False)
Validate == FALSE

\* the reader yields the parsed message of frame f
ReaderYields(f) == (~Validate) \/ f.ckOk

\* variant: no test of the identity
IsFixAny(p) == TRUE

\* getattr(parsed, "identity", None) == "NAV-PVT"
IsFix(p) == p.identity = "NAV-PVT"

\* None in (lat, lon, year, month, day, hour, minute, second)
NoneInFields(p) == p.missing \cap (FieldNames \ {"nano"}) # {}

\* usec of lines 60-66
Usec(p) == IF "nano" \in p.missing THEN 0 ELSE p.nano \div 1000

\* the tuples one iteration of the loop of line 20 appends to records
HandleParsed(p) ==
    IF ~IsFix(p) THEN <<>>
    ELSE IF NoneInFields(p) THEN <<>>
    ELSE IF DatetimeAccepts(p.year, p.month, p.day, p.hour, p.min, p.second, Usec(p))
         THEN << [dt |-> [year |-> p.year, month |-> p.month, day |-> p.day,
                          hour |-> p.hour, min |-> p.min, second |-> p.second,
                          usec |-> Usec(p)],
                  lat |-> p.lat, lon |-> p.lon] >>
         ELSE <<>>

\* variant: the China branch includes its max-lon endpoint
PrintedRegionClosed(lat, lon) ==
    IF lat > 59833330 /\ lat < 68905960 /\ lon > 21375960 /\ lon < 30932760
        THEN "Finland"
    ELSE IF lat > 45832030 /\ lat < 47697320 /\ lon > 6075440 /\ lon < 9837230
        THEN "Switzerland"
    ELSE IF lat > 18243060 /\ lat < 52333330 /\ lon > 75989510 /\ lon <= 134289170
        THEN "China"
    ELSE IF lat > 24344780 /\ lat < 45409440 /\ lon > 124157170 /\ lon < 145575000
        THEN "Japan"
    ELSE IF lat > 1289670 /\ lat < 1328080 /\ lon > 103804641 /\ lon < 103840000
        THEN "Singapore"
    ELSE IF lat > 19501390 /\ lat < 64856940 /\ lon > -161755830 /\ lon < -68011970
        THEN "United States"
    ELSE ""

\* the region name printed by the chain of lines 123-134 ("" when no branch)
PrintedRegion(lat, lon) ==
    IF lat > 59833330 /\ lat < 68905960 /\ lon > 21375960 /\ lon < 30932760
        THEN "Finland"
    ELSE IF lat > 45832030 /\ lat < 47697320 /\ lon > 6075440 /\ lon < 9837230
        THEN "Switzerland"
    ELSE IF lat > 18243060 /\ lat < 52333330 /\ lon > 75989510 /\ lon < 134289170
        THEN "China"
    ELSE IF lat > 24344780 /\ lat < 45409440 /\ lon > 124157170 /\ lon < 145575000
        THEN "Japan"
    ELSE IF lat > 1289670 /\ lat < 1328080 /\ lon > 103804641 /\ lon < 103840000
        THEN "Singapore"
    ELSE IF lat > 19501390 /\ lat < 64856940 /\ lon > -161755830 /\ lon < -68011970
        THEN "United States"
    ELSE ""

\* the value of `location` at line 141
Location(lat, lon) == "unknown"

-----------------------------------------------------------------------------
(* State machine *)

InitRest ==
    /\ pc = "start"
    /\ paths = <<>>
    /\ cur = 0
    /\ pos = 0
    /\ records = <<>>
    /\ results = <<>>
    /\ warnings = <<>>
    /\ reportIdx = 0
    /\ reports = <<>>
    /\ errorPrinted = FALSE

InitWith(D) ==
    /\ \/ dirExists = TRUE /\ dir \in D
       \/ dirExists = FALSE /\ dir = <<>>
    /\ InitRest

Init == InitWith(Dirs(DirFrames, DirMaxFrames, NFiles))

InitFile == InitWith(Dirs(FileFrames, MaxFrames, 1))

InitGeo == InitWith(Dirs(GeoFrames, 1, 1))

CurName == paths[cur]
CurEntry == dir[CurName]

\* collect_info_from_dir raises FileNotFoundError; main prints it and returns
DirNotFound ==
    /\ pc = "start"
    /\ ~dirExists
    /\ errorPrinted' = TRUE
    /\ pc' = "done"
    /\ UNCHANGED <<dirExists, dir, paths, cur, pos, records, results, warnings,
                   reportIdx, reports>>

\* collect_info_from_dir up to the for loop
BeginDir ==
    /\ pc = "start"
    /\ dirExists
    /\ results' = <<>>
    /\ paths' = SortedSeq(Glob)
    /\ cur' = 1
    /\ pc' = "dir_loop"
    /\ UNCHANGED <<dirExists, dir, pos, records, warnings, reportIdx, reports,
                   errorPrinted>>

\* variant: the list of the previous call is reused
CarriedRecords == records

\* records = [] of line 17
NewRecords == <<>>

\* the for loop takes the next path and calls collect_info_from_file
OpenFile ==
    /\ pc = "dir_loop"
    /\ cur <= Len(paths)
    /\ records' = NewRecords
    /\ pos' = 0
    /\ pc' = "file_iter"
    /\ UNCHANGED <<dirExists, dir, paths, cur, results, warnings, reportIdx,
                   reports, errorPrinted>>

\* one iteration of the loop of line 20
ReadFrame ==
    /\ pc = "file_iter"
    /\ pos < Len(CurEntry.frames)
    /\ CurEntry.failAfter # pos
    /\ LET f == CurEntry.frames[pos + 1]
       IN records' = IF ReaderYields(f) THEN records \o HandleParsed(f) ELSE records
    /\ pos' = pos + 1
    /\ UNCHANGED <<dirExists, dir, pc, paths, cur, results, warnings, reportIdx,
                   reports, errorPrinted>>

\* the iterator is exhausted: return records; results[name] = records
FileEnd ==
    /\ pc = "file_iter"
    /\ pos = Len(CurEntry.frames)
    /\ CurEntry.failAfter # pos
    /\ results' = Append(results, [name |-> CurName, records |-> records])
    /\ cur' = cur + 1
    /\ pc' = "dir_loop"
    /\ UNCHANGED <<dirExists, dir, paths, pos, records, warnings, reportIdx,
                   reports, errorPrinted>>

\* variant: the except branch keeps what was decoded before the failure
ExceptKeepsPartial == records

\* the value stored by the except branch, line 90
ExceptValue == <<>>

\* variant: a failure ends the loop over the paths
AfterExceptStop == Len(paths) + 1

\* the path the for loop takes after the except branch
AfterExcept == cur + 1

\* the stream raises: the except branch of collect_info_from_dir
StreamRaise ==
    /\ pc = "file_iter"
    /\ CurEntry.failAfter = pos
    /\ results' = Append(results, [name |-> CurName, records |-> ExceptValue])
    /\ warnings' = Append(warnings, CurName)
    /\ cur' = AfterExcept
    /\ pc' = "dir_loop"
    /\ UNCHANGED <<dirExists, dir, paths, pos, records, reportIdx, reports,
                   errorPrinted>>

\* the for loop of line 85 ends: return results to main
ReturnResults ==
    /\ pc = "dir_loop"
    /\ cur > Len(paths)
    /\ reportIdx' = 1
    /\ pc' = "report"
    /\ UNCHANGED <<dirExists, dir, paths, cur, pos, records, results, warnings,
                   reports, errorPrinted>>

\* one iteration of the loop of line 111 on a file with records
ReportFile ==
    /\ pc = "report"
    /\ reportIdx <= Len(results)
    /\ results[reportIdx].records # <<>>
    /\ LET r == results[reportIdx].records[1]
       IN reports' = Append(reports,
                            [fname |-> results[reportIdx].name,
                             lat |-> r.lat, lon |-> r.lon,
                             printed |-> PrintedRegion(r.lat, r.lon),
                             location |-> Location(r.lat, r.lon)])
    /\ reportIdx' = reportIdx + 1
    /\ UNCHANGED <<dirExists, dir, pc, paths, cur, pos, records, results, warnings,
                   errorPrinted>>

\* records[0] of line 114 on an empty list: IndexError, not caught
ReportCrash ==
    /\ pc = "report"
    /\ reportIdx <= Len(results)
    /\ results[reportIdx].records = <<>>
    /\ pc' = "crashed"
    /\ UNCHANGED <<dirExists, dir, paths, cur, pos, records, results, warnings,
                   reportIdx, reports, errorPrinted>>

\* the loop of line 111 ends
MainReturn ==
    /\ pc = "report"
    /\ reportIdx > Len(results)
    /\ pc' = "done"
    /\ UNCHANGED <<dirExists, dir, paths, cur, pos, records, results, warnings,
                   reportIdx, reports, errorPrinted>>

Next ==
    \/ DirNotFound
    \/ BeginDir
    \/ OpenFile
    \/ ReadFrame
    \/ FileEnd
    \/ StreamRaise
    \/ ReturnResults
    \/ ReportFile
    \/ ReportCrash
    \/ MainReturn

Spec == Init /\ [][Next]_vars

SpecFile == InitFile /\ [][Next]_vars

SpecGeo == InitGeo /\ [][Next]_vars

-----------------------------------------------------------------------------
(* Vocabulary of the properties *)

\* the ordered table of region rules
Rules ==
    << [name |-> "Finland", minLat |-> 59833330, maxLat |-> 68905960,
        minLon |-> 21375960, maxLon |-> 30932760],
       [name |-> "Switzerland", minLat |-> 45832030, maxLat |-> 47697320,
        minLon |-> 6075440, maxLon |-> 9837230],
       [name |-> "China", minLat |-> 18243060, maxLat |-> 52333330,
        minLon |-> 75989510, maxLon |-> 134289170],
       [name |-> "Japan", minLat |-> 24344780, maxLat |-> 45409440,
        minLon |-> 124157170, maxLon |-> 145575000],
       [name |-> "Singapore", minLat |-> 1289670, maxLat |-> 1328080,
        minLon |-> 103804641, maxLon |-> 103840000],
       [name |-> "United States", minLat |-> 19501390, maxLat |-> 64856940,
        minLon |-> -161755830, maxLon |-> -68011970] >>

StrictlyIn(r, lat, lon) ==
    r.minLat < lat /\ lat < r.maxLat /\ r.minLon < lon /\ lon < r.maxLon

\* in the closed box of r, on one of its four sides
OnSide(r, lat, lon) ==
    /\ r.minLat <= lat /\ lat <= r.maxLat /\ r.minLon <= lon /\ lon <= r.maxLon
    /\ ~StrictlyIn(r, lat, lon)

Matching(lat, lon) == {k \in DOMAIN Rules : StrictlyIn(Rules[k], lat, lon)}

\* the name of the first rule whose box contains the point, else "unknown"
FirstRule(lat, lon) ==
    IF Matching(lat, lon) = {} THEN "unknown"
    ELSE Rules[CHOOSE k \in Matching(lat, lon) :
                   \A j \in Matching(lat, lon) : k <= j].name

CalendarValid(f) ==
    /\ f.year \in 1..9999
    /\ f.month \in 1..12
    /\ f.day \in 1..(CASE f.month \in {1, 3, 5, 7, 8, 10, 12} -> 31
                       [] f.month \in {4, 6, 9, 11} -> 30
                       [] OTHER -> IF f.year % 4 = 0 /\ (f.year % 100 # 0 \/ f.year % 400 = 0)
                                   THEN 29 ELSE 28)
    /\ f.hour \in 0..23
    /\ f.min \in 0..59
    /\ f.second \in 0..59

\* a NAV-PVT message with every field the tuple needs
FixRecord(f) ==
    f.identity = "NAV-PVT" /\ f.missing \cap (FieldNames \ {"nano"}) = {}

FloorUsec(f) == IF "nano" \in f.missing THEN 0 ELSE f.nano \div 1000

TruncDiv(a, b) == IF a >= 0 THEN a \div b ELSE -((-a) \div b)

TruncUsec(f) == IF "nano" \in f.missing THEN 0 ELSE TruncDiv(f.nano, 1000)

\* the frame yields a tuple: a fix record with a valid calendar whose
\* microsecond value is one a datetime can hold
Accepted(f) == FixRecord(f) /\ CalendarValid(f) /\ FloorUsec(f) \in 0..999999

SampleOf(f) ==
    [dt |-> [year |-> f.year, month |-> f.month, day |-> f.day, hour |-> f.hour,
             min |-> f.min, second |-> f.second, usec |-> FloorUsec(f)],
     lat |-> f.lat, lon |-> f.lon]

RECURSIVE SamplesOf(_)
SamplesOf(fs) ==
    IF fs = <<>> THEN <<>>
    ELSE (IF Accepted(Head(fs)) THEN <<SampleOf(Head(fs))>> ELSE <<>>)
         \o SamplesOf(Tail(fs))

\* calendar fields and coordinates of a tuple or of a frame
Stamp(x, c) ==
    [year |-> c.year, month |-> c.month, day |-> c.day, hour |-> c.hour,
     min |-> c.min, second |-> c.second, lat |-> x.lat, lon |-> x.lon]

StampsOf(rs) == [i \in DOMAIN rs |-> Stamp(rs[i], rs[i].dt)]

FrameStamps(fs) == [i \in DOMAIN fs |-> Stamp(fs[i], fs[i])]

GoodChecksum(f) == f.ckOk

FixWithValidCalendar(f) == FixRecord(f) /\ CalendarValid(f)

\* what a file contributes on its own
OwnResult(e) == IF Fails(e) THEN <<>> ELSE SamplesOf(e.frames)

\* collect_info_from_dir has returned normally
DirReturned == dirExists /\ pc \in {"report", "done", "crashed"}

ResultNames == {results[i].name : i \in DOMAIN results}

\* entries of results of files that were read to their end
Completed == {i \in DOMAIN results : ~Fails(dir[results[i].name])}

Failed == {i \in DOMAIN results : Fails(dir[results[i].name])}

\* tuples decoded from the current file so far
Consumed == SubSeq(CurEntry.frames, 1, pos)

-----------------------------------------------------------------------------
(* C1 *)

\* C1: the label reported for a file (`location` of the summary line) is the
\* name of the first rule, in table order, whose box contains the first
\* sample's point, and "unknown" exactly when no box contains it.
C1_LabelIsFirstRule ==
    \A i \in DOMAIN reports :
        reports[i].location = FirstRule(reports[i].lat, reports[i].lon)

-----------------------------------------------------------------------------
(* C2 *)

-----------------------------------------------------------------------------
(* C3 *)

\* C3: a file whose processing raises gets the empty list and a warning, and
\* every other .ubz file, earlier or later, is processed and gets the result
\* it has on its own.
C3_FailureIsolated ==
    DirReturned =>
        \A n \in Glob :
            Fails(dir[n]) =>
                /\ \E i \in DOMAIN results :
                       results[i].name = n /\ results[i].records = <<>>
                /\ \E w \in DOMAIN warnings : warnings[w] = n
                /\ \A m \in Glob \ {n} :
                       \E j \in DOMAIN results :
                           /\ results[j].name = m
                           /\ results[j].records = OwnResult(dir[m])

C3_Witness ==
    /\ DirReturned
    /\ \E n, m, l \in Glob :
           /\ m < n /\ n < l
           /\ Fails(dir[n])
           /\ \E j \in DOMAIN results :
                  results[j].name = m /\ results[j].records # <<>>
           /\ \E j \in DOMAIN results :
                  results[j].name = l /\ results[j].records # <<>>

-----------------------------------------------------------------------------
(* C4 *)

\* C4: a record with invalid calendar fields produces no sample and is not
\* corrected, and the file's result is the samples of the remaining records,
\* those with valid calendar fields, in decode order.
C4_ValidRecordsKept ==
    \A i \in Completed :
        StampsOf(results[i].records)
            = FrameStamps(SelectSeq(dir[results[i].name].frames, FixWithValidCalendar))

\* The statement of C4 restricted to files in which every frame's microsecond
\* value (nano // 1000) is one a datetime can hold: there it holds.
C4_HoldsWhenMicrosecondsInRange ==
    \A i \in Completed :
        LET fs == dir[results[i].name].frames
        IN (\A k \in DOMAIN fs : FloorUsec(fs[k]) \in 0..999999) =>
               StampsOf(results[i].records)
                   = FrameStamps(SelectSeq(fs, FixWithValidCalendar))

-----------------------------------------------------------------------------
(* C5 *)

\* C5: every fix record with valid calendar fields produces a sample, for any
\* value of nano, and the sample's microsecond offset is nano / 1000
\* truncated toward zero.
C5_TruncatedMicroseconds ==
    \A i \in Completed :
        LET fs == dir[results[i].name].frames
        IN \A k \in DOMAIN fs :
               FixWithValidCalendar(fs[k]) =>
                   \E j \in DOMAIN results[i].records :
                       LET r == results[i].records[j]
                       IN /\ r.lat = fs[k].lat /\ r.lon = fs[k].lon
                          /\ TruncUsec(fs[k]) \in 0..999999 =>
                                 /\ Stamp(r, r.dt) = Stamp(fs[k], fs[k])
                                 /\ r.dt.usec = TruncUsec(fs[k])

-----------------------------------------------------------------------------
(* C6 *)

\* C6: the run never stops on an unhandled failure, and when it ends every
\* file of the result mapping has been reported.
C6_RunCompletes ==
    /\ pc # "crashed"
    /\ (pc = "done" /\ dirExists) =>
           /\ ResultNames = Glob
           /\ {reports[i].fname : i \in DOMAIN reports} = Glob

-----------------------------------------------------------------------------
(* C7 *)

\* C7: only NAV-PVT frames contribute: the tuples of a file never outnumber
\* the NAV-PVT frames read, and every tuple carries the fields of a NAV-PVT
\* frame that was read.
C7_OnlyFixFrames ==
    /\ pc = "file_iter" =>
           /\ Len(records)
                  <= Cardinality({k \in 1..pos : CurEntry.frames[k].identity = "NAV-PVT"})
           /\ \A j \in DOMAIN records :
                  \E k \in 1..pos :
                      /\ CurEntry.frames[k].identity = "NAV-PVT"
                      /\ Stamp(records[j], records[j].dt)
                             = Stamp(CurEntry.frames[k], CurEntry.frames[k])
    /\ \A i \in DOMAIN results :
           LET fs == dir[results[i].name].frames
           IN Len(results[i].records)
                  <= Cardinality({k \in DOMAIN fs : fs[k].identity = "NAV-PVT"})

C7_Witness ==
    \E i \in Completed :
        LET fs == dir[results[i].name].frames
        IN /\ Len(fs) = 2
           /\ fs[1].identity # "NAV-PVT" /\ fs[1].missing = {}
           /\ fs[2].identity = "NAV-PVT"
           /\ Len(results[i].records) = 1

-----------------------------------------------------------------------------
(* C8 *)

-----------------------------------------------------------------------------
(* C9 *)

\* C9: no state carries over between files: while a file is read, records
\* holds the samples of the frames read from that file and nothing else, and
\* every stored entry is what its file contributes on its own.
C9_FilesIndependent ==
    /\ pc = "file_iter" => records = SamplesOf(Consumed)
    /\ \A i \in DOMAIN results : results[i].records = OwnResult(dir[results[i].name])

C9_Witness ==
    /\ pc = "file_iter"
    /\ pos >= 1
    /\ Len(records) = 1
    /\ \E i \in DOMAIN results : results[i].records # <<>>

-----------------------------------------------------------------------------
(* C10 *)

\* C10: after collect_info_from_dir returns, results has one entry per .ubz
\* file and no other key; the entry of a file read to its end is its complete
\* sample sequence and the entry of a file that raised is empty, whatever was
\* decoded before the failure.
C10_CompleteOrEmpty ==
    DirReturned =>
        /\ ResultNames = Glob
        /\ Len(results) = Cardinality(Glob)
        /\ \A i \in Completed :
               results[i].records = SamplesOf(dir[results[i].name].frames)
        /\ \A i \in Failed : results[i].records = <<>>

C10_Witness ==
    /\ DirReturned
    /\ \E n \in DOMAIN dir : ~dir[n].ubz
    /\ \E i \in Failed :
           LET e == dir[results[i].name]
           IN /\ SamplesOf(SubSeq(e.frames, 1, e.failAfter)) # <<>>
              /\ results[i].records = <<>>

====
